---- MODULE Spec2Model ----
(***************************************************************************)
(* Model of the admission API (src/API_371db/app.py): the session manager  *)
(* (register_applicant, login_for_access_token, get_current_user) and the  *)
(* exam-roll allocator (create_admit_card), run as concurrent requests,    *)
(* each on its own pooled connection with its own transaction, against one *)
(* shared MySQL store.                                                     *)
(***************************************************************************)
EXTENDS Integers, FiniteSets, Sequences, TLC

\* ------------------------------------------------------------------ bounds
MaxProcs == 2          \* concurrent admit-card requests
MaxRegs == 2           \* concurrent registration requests
MaxApplicants == 2     \* applicant ids an admit-card request may name
MaxUnits == 1          \* exam unit ids an admit-card request may name
MaxTime == 32          \* the clock stops advancing here (minutes)
MaxFaults == 1         \* storage failures injected into registrations
MaxPayments == 1       \* payment rows the store takes

\* ------------------------------------------------------- program constants
ACCESS_TOKEN_EXPIRE_MINUTES == 30
FloorRoll == 220430

Procs == 1..MaxProcs
Regs == 1..MaxRegs
ApplicantIds == 1..MaxApplicants
UnitIds == 1..MaxUnits
Emails == {"a@x.com", "b@x.com"}
Passwords == {"pw1", "pw2"}

VARIABLES
    applicant_info,   \* committed rows of table applicant_info
    applicant_login,  \* committed rows of table applicant_login
    next_id,          \* AUTO_INCREMENT counter of applicant_info
    admit_card,       \* committed rows of table admit_card
    cardTx,           \* per request: admit_card rows inserted, not committed
    regTx,            \* per request: applicant rows inserted, not committed
    issue,            \* per request: position and locals of create_admit_card
    reg,              \* per request: position and locals of register_applicant
    loginResp,        \* the latest response of login_for_access_token
    resolveResp,      \* the latest response of a protected route
    now,              \* the wall clock, in minutes
    faults,           \* storage failures injected so far
    payment,          \* committed rows of table payment
    cardResp          \* the latest response of an applicant's card or payment
                      \* route; applicant_id names the caller of an upload

vars == <<applicant_info, applicant_login, next_id, admit_card, cardTx, regTx,
          issue, reg, loginResp, resolveResp, now, faults, payment, cardResp>>

authVars == <<applicant_info, applicant_login, next_id, regTx, reg,
              loginResp, resolveResp, faults>>
rollVars == <<admit_card, cardTx, issue>>
cardVars == <<payment, cardResp>>

\* ------------------------------------------------------------------ tokens
NoToken == [sub |-> "", exp |-> 0, sig |-> "absent"]
NoUser == [applicant_id |-> 0, email |-> ""]

\* line 205-206: hashlib.sha256(...).hexdigest(), deterministic and unsalted;
\* the digest of a password is a value distinct from the password
get_password_hash(password) == <<"sha256", password>>

\* the comparison inverted: only a non-matching digest verifies
verify_password_Inverted(plain_password, hashed_password) ==
    get_password_hash(plain_password) # hashed_password

\* line 209-210
verify_password(plain_password, hashed_password) ==
    get_password_hash(plain_password) = hashed_password

\* line 238-246, called with expires_delta = ACCESS_TOKEN_EXPIRE_MINUTES
create_access_token(sub, t) ==
    [sub |-> sub, exp |-> t + ACCESS_TOKEN_EXPIRE_MINUTES, sig |-> "valid"]

\* the exp comparison made strict: a token is still accepted at its expiry
jwt_decode_Late(token, t) ==
    IF token.sig # "valid" THEN "InvalidSignatureError"
    ELSE IF token.exp < t THEN "ExpiredSignatureError"
    ELSE "ok"

\* line 256: jwt.decode checks the signature, then the exp claim, which
\* rejects the token on or after the expiry instant
jwt_decode(token, t) ==
    IF token.sig # "valid" THEN "InvalidSignatureError"
    ELSE IF token.exp <= t THEN "ExpiredSignatureError"
    ELSE "ok"

credentials_exception(kind) ==
    [status |-> 401, detail |-> "Could not validate credentials",
     kind |-> kind, user |-> NoUser]

\* line 249-275: the responses get_current_user can give for a bearer token
\* at time t against the committed applicant_info rows
get_current_user(token, t, infos) ==
    IF token.sig = "absent"
    THEN {[status |-> 401, detail |-> "Not authenticated",
           kind |-> "NoBearer", user |-> NoUser]}
    ELSE IF jwt_decode(token, t) # "ok"
    THEN {credentials_exception(jwt_decode(token, t))}
    ELSE IF token.sub = ""
    THEN {credentials_exception("NoSubject")}
    ELSE LET rows == {u \in infos : u.email = token.sub}
         IN  IF rows = {} THEN {credentials_exception("UnknownSubject")}
             ELSE {[status |-> 200, detail |-> "", kind |-> "ok", user |-> u] :
                       u \in rows}

\* ---------------------------------------------------------- roll allocator
SetMax(S) == CHOOSE m \in S : \A x \in S : x <= m

Rolls(cards) == {c.exam_roll : c \in cards}

\* line 572-574: SELECT MAX(exam_roll); `or 220430`; max_roll + 1
NewRoll(cards) ==
    LET max_roll == IF cards = {} THEN FloorRoll ELSE SetMax(Rolls(cards))
    IN  max_roll + 1

\* no uniqueness constraint on admit_card.exam_roll
RollTaken_Off(roll) == FALSE

\* the store's uniqueness constraint on admit_card.exam_roll: the roll is
\* taken by a committed row
RollTaken(roll) == roll \in Rolls(admit_card)

\* an uncommitted row of another transaction holds the index entry: the
\* insert waits for that transaction to end
RollLocked(p, roll) ==
    \E q \in Procs \ {p} : roll \in Rolls(cardTx[q])

NoTx == [info |-> {}, login |-> {}]

IdleReg == [pc |-> "idle", email |-> "", password |-> "", status |-> 0,
            detail |-> "", faulted |-> FALSE]

NoLogin == [status |-> 0, detail |-> "", email |-> "", password |-> "",
            token |-> NoToken]

NoResolve == [status |-> 0, detail |-> "", kind |-> "", token |-> NoToken,
              user |-> NoUser]

NoCardResp == [route |-> "", status |-> 0, applicant_id |-> 0]

IdleIssue == [pc |-> "idle", applicant_id |-> 0, unit_id |-> 0, new_roll |-> 0,
              status |-> 0, attempts |-> 0, bearer |-> NoToken]

Init ==
    /\ applicant_info = {}
    /\ applicant_login = {}
    /\ next_id = 1
    /\ admit_card = {}
    /\ cardTx = [p \in Procs |-> {}]
    /\ regTx = [r \in Regs |-> NoTx]
    /\ issue = [p \in Procs |-> IdleIssue]
    /\ reg = [r \in Regs |-> IdleReg]
    /\ loginResp = NoLogin
    /\ resolveResp = NoResolve
    /\ now = 0
    /\ faults = 0
    /\ payment = {}
    /\ cardResp = NoCardResp

\* POST /admin/admit-cards arrives; the route declares no dependency on
\* get_current_user, so whatever bearer token the request carries is ignored
StartIssue(p) ==
    /\ issue[p].pc = "idle"
    /\ \E a \in ApplicantIds, u \in UnitIds,
          b \in {NoToken, [sub |-> "a@x.com", exp |-> 0, sig |-> "forged"]} :
          issue' = [issue EXCEPT ![p] = [IdleIssue EXCEPT !.pc = "read_max",
                       !.applicant_id = a, !.unit_id = u, !.bearer = b]]
    /\ UNCHANGED <<admit_card, cardTx, now>>
    /\ UNCHANGED authVars
    /\ UNCHANGED cardVars

\* line 572-574
ReadMax(p) ==
    /\ issue[p].pc = "read_max"
    /\ issue' = [issue EXCEPT ![p].new_roll = NewRoll(admit_card),
                              ![p].pc = "insert"]
    /\ UNCHANGED <<admit_card, cardTx, now>>
    /\ UNCHANGED authVars
    /\ UNCHANGED cardVars

\* line 584-585, and 598-600 when the insert raises
InsertCard(p) ==
    /\ issue[p].pc = "insert"
    /\ ~RollLocked(p, issue[p].new_roll)
    /\ IF RollTaken(issue[p].new_roll)
       THEN /\ cardTx' = [cardTx EXCEPT ![p] = {}]
            /\ issue' = [issue EXCEPT ![p].pc = "done", ![p].status = 500,
                                      ![p].attempts = @ + 1]
       ELSE /\ cardTx' = [cardTx EXCEPT ![p] =
                   {[exam_roll |-> issue[p].new_roll,
                     applicant_id |-> issue[p].applicant_id,
                     unit_id |-> issue[p].unit_id,
                     issued_at |-> now,
                     applicant_photo |-> "NULL"]}]
            /\ issue' = [issue EXCEPT ![p].pc = "commit", ![p].attempts = @ + 1]
    /\ UNCHANGED <<admit_card, now>>
    /\ UNCHANGED authVars
    /\ UNCHANGED cardVars

\* line 587
CommitCard(p) ==
    /\ issue[p].pc = "commit"
    /\ admit_card' = admit_card \cup cardTx[p]
    /\ cardTx' = [cardTx EXCEPT ![p] = {}]
    /\ issue' = [issue EXCEPT ![p].pc = "select"]
    /\ UNCHANGED now
    /\ UNCHANGED authVars
    /\ UNCHANGED cardVars

\* line 590-597
ReturnCard(p) ==
    /\ issue[p].pc = "select"
    /\ \E c \in admit_card : c.exam_roll = issue[p].new_roll
    /\ issue' = [issue EXCEPT ![p].pc = "done", ![p].status = 201]
    /\ UNCHANGED <<admit_card, cardTx, now>>
    /\ UNCHANGED authVars
    /\ UNCHANGED cardVars

Tick ==
    /\ now < MaxTime
    /\ now' = now + 1
    /\ UNCHANGED rollVars
    /\ UNCHANGED authVars
    /\ UNCHANGED cardVars

NextRoll ==
    \/ \E p \in Procs : StartIssue(p)
    \/ \E p \in Procs : ReadMax(p)
    \/ \E p \in Procs : InsertCard(p)
    \/ \E p \in Procs : CommitCard(p)
    \/ \E p \in Procs : ReturnCard(p)

SpecRoll == Init /\ [][NextRoll]_vars

\* --------------------------------------------------------- session manager
LoginEmails(rows) == {l.email : l \in rows}

\* the store's uniqueness constraint on applicant_login.email: the email has
\* a committed credential
EmailTaken(email) == email \in LoginEmails(applicant_login)

\* an uncommitted credential of another transaction holds the index entry
EmailLocked(r, email) ==
    \E q \in Regs \ {r} : email \in LoginEmails(regTx[q].login)

\* the rollback left out: the rows inserted so far stay
RolledBack_Kept(tx) == tx

\* line 330: what conn.rollback() leaves of the transaction's rows
RolledBack(tx) == NoTx

\* the errno test left out: every database error answers 500
RegisterError_NoErrno(errno) ==
    [status |-> 500, detail |-> "Database error"]

\* line 331-333: the response for a mysql.connector.Error
RegisterError(errno) ==
    IF errno = 1062
    THEN [status |-> 400, detail |-> "Email already registered"]
    ELSE [status |-> 500, detail |-> "Database error"]

\* line 329-333: the except branch of register_applicant
FailRegister(r, errno, infoRows, inject) ==
    /\ applicant_info' = applicant_info \cup RolledBack([info |-> infoRows,
                                              login |-> regTx[r].login]).info
    /\ applicant_login' = applicant_login \cup RolledBack([info |-> infoRows,
                                              login |-> regTx[r].login]).login
    /\ regTx' = [regTx EXCEPT ![r] = NoTx]
    /\ reg' = [reg EXCEPT ![r].pc = "done",
                          ![r].status = RegisterError(errno).status,
                          ![r].detail = RegisterError(errno).detail,
                          ![r].faulted = inject]
    /\ faults' = IF inject THEN faults + 1 ELSE faults

\* POST /register arrives
StartRegister(r) ==
    /\ reg[r].pc = "idle"
    /\ \E e \in Emails, pw \in Passwords :
          reg' = [reg EXCEPT ![r].pc = "ins_info", ![r].email = e,
                             ![r].password = pw]
    /\ UNCHANGED <<applicant_info, applicant_login, next_id, regTx, loginResp,
                   resolveResp, faults, now>>
    /\ UNCHANGED rollVars
    /\ UNCHANGED cardVars

\* line 316-317: INSERT INTO applicant_info; the AUTO_INCREMENT value is
\* consumed whether or not the transaction commits
InsertInfo(r) ==
    /\ reg[r].pc = "ins_info"
    /\ \/ /\ regTx' = [regTx EXCEPT ![r].info =
                          {[applicant_id |-> next_id, email |-> reg[r].email]}]
          /\ next_id' = next_id + 1
          /\ reg' = [reg EXCEPT ![r].pc = "ins_login"]
          /\ UNCHANGED <<applicant_info, applicant_login, faults>>
       \/ /\ faults < MaxFaults
          /\ FailRegister(r, 2013, {}, TRUE)
          /\ UNCHANGED next_id
    /\ UNCHANGED <<loginResp, resolveResp, now>>
    /\ UNCHANGED rollVars
    /\ UNCHANGED cardVars

\* line 320-324: INSERT INTO applicant_login
InsertLogin(r) ==
    /\ reg[r].pc = "ins_login"
    /\ \/ /\ ~EmailLocked(r, reg[r].email)
          /\ IF EmailTaken(reg[r].email)
             THEN FailRegister(r, 1062, regTx[r].info, FALSE)
             ELSE /\ regTx' = [regTx EXCEPT ![r].login =
                         {[email |-> reg[r].email,
                           password_hash |-> get_password_hash(reg[r].password),
                           last_login |-> -1]}]
                  /\ reg' = [reg EXCEPT ![r].pc = "commit"]
                  /\ UNCHANGED <<applicant_info, applicant_login, faults>>
       \/ /\ faults < MaxFaults
          /\ FailRegister(r, 2013, regTx[r].info, TRUE)
    /\ UNCHANGED <<next_id, loginResp, resolveResp, now>>
    /\ UNCHANGED rollVars
    /\ UNCHANGED cardVars

\* line 326-328: conn.commit() makes both rows durable together
CommitRegister(r) ==
    /\ reg[r].pc = "commit"
    /\ \/ /\ applicant_info' = applicant_info \cup regTx[r].info
          /\ applicant_login' = applicant_login \cup regTx[r].login
          /\ regTx' = [regTx EXCEPT ![r] = NoTx]
          /\ reg' = [reg EXCEPT ![r].pc = "done", ![r].status = 201,
                        ![r].detail = "Applicant registered successfully"]
          /\ UNCHANGED faults
       \/ /\ faults < MaxFaults
          /\ FailRegister(r, 2013, regTx[r].info, TRUE)
    /\ UNCHANGED <<next_id, loginResp, resolveResp, now>>
    /\ UNCHANGED rollVars
    /\ UNCHANGED cardVars

\* line 213-235: the applicant_info row authenticate_user returns, or NoUser
\* for its `False`
authenticate_user(email, password) ==
    LET creds == {l \in applicant_login : l.email = email}
    IN  IF creds = {} \/ \A l \in creds :
                             ~verify_password(password, l.password_hash)
        THEN {NoUser}
        ELSE LET rows == {u \in applicant_info : u.email = email}
             IN  IF rows = {} THEN {NoUser} ELSE rows

\* line 294-300: `except Exception` also catches the HTTPException raised
\* inside the try block and answers 500
LoginExceptionHandler(exc) ==
    [status |-> 500, detail |-> "Error during authentication"]

\* line 280-300
login_response(user, email, password, t) ==
    IF user = NoUser
    THEN LoginExceptionHandler([status |-> 401,
                                detail |-> "Incorrect email or password"])
         @@ [email |-> email, password |-> password, token |-> NoToken]
    ELSE [status |-> 200, detail |-> "", email |-> email, password |-> password,
          token |-> create_access_token(user.email, t)]

\* POST /token
Login ==
    /\ \E e \in Emails, pw \in Passwords :
       \E user \in authenticate_user(e, pw) :
          /\ loginResp' = login_response(user, e, pw, now)
          /\ applicant_login' =
                IF user = NoUser THEN applicant_login
                ELSE {IF l.email = e THEN [l EXCEPT !.last_login = now] ELSE l :
                         l \in applicant_login}
    /\ UNCHANGED <<applicant_info, next_id, regTx, reg, resolveResp, faults, now>>
    /\ UNCHANGED rollVars
    /\ UNCHANGED cardVars

\* the bearer tokens a client can present at time t: none, the token the
\* latest login returned, or one it signed itself without the secret
Presentable(t) ==
    {NoToken, loginResp.token}
    \cup {[sub |-> e, exp |-> t + 1, sig |-> "forged"] : e \in Emails}

\* line 339-341: GET /applicants/me, behind Depends(get_current_user)
ReadUsersMe ==
    /\ \E tok \in Presentable(now) :
       \E r \in get_current_user(tok, now, applicant_info) :
          resolveResp' = r @@ [token |-> tok]
    /\ UNCHANGED <<applicant_info, applicant_login, next_id, regTx, reg,
                   loginResp, faults, now>>
    /\ UNCHANGED rollVars
    /\ UNCHANGED cardVars

NextAuth ==
    \/ \E r \in Regs : StartRegister(r)
    \/ \E r \in Regs : InsertInfo(r)
    \/ \E r \in Regs : InsertLogin(r)
    \/ \E r \in Regs : CommitRegister(r)
    \/ Login
    \/ ReadUsersMe

SpecAuth == Init /\ [][NextAuth]_vars

\* a store in which one registration has committed and no request is in flight
InitSession ==
    /\ applicant_info = {[applicant_id |-> 1, email |-> "a@x.com"]}
    /\ applicant_login = {[email |-> "a@x.com",
                           password_hash |-> get_password_hash("pw1"),
                           last_login |-> -1]}
    /\ next_id = 2
    /\ admit_card = {}
    /\ cardTx = [p \in Procs |-> {}]
    /\ regTx = [r \in Regs |-> NoTx]
    /\ issue = [p \in Procs |-> IdleIssue]
    /\ reg = [r \in Regs |-> IdleReg]
    /\ loginResp = NoLogin
    /\ resolveResp = NoResolve
    /\ now = 0
    /\ faults = 0
    /\ payment = {}
    /\ cardResp = NoCardResp

NextSession ==
    \/ Login
    \/ ReadUsersMe
    \/ Tick

SpecSession == InitSession /\ [][NextSession]_vars

\* ------------------------------------------------- applicant card routes
Photos == {"jpeg"}
\* the admit-card requests that run beside the applicant routes
CardProcs == {1, 2}

\* the WHERE clause left out: the photo lands on every card
SetPhoto_NoWhere(cards, applicant_id, photo) ==
    {[c EXCEPT !.applicant_photo = photo] : c \in cards}

\* line 378-381: UPDATE admit_card SET applicant_photo = %s
\* WHERE applicant_id = %s
SetPhoto(cards, applicant_id, photo) ==
    {IF c.applicant_id = applicant_id
     THEN [c EXCEPT !.applicant_photo = photo] ELSE c : c \in cards}

\* an uncommitted card of the applicant, inserted by a running
\* create_admit_card, holds its row lock: the UPDATE waits for it
CardLocked(applicant_id) ==
    \E q \in Procs : \E c \in cardTx[q] : c.applicant_id = applicant_id

\* line 365-394: POST /upload-photo, behind Depends(get_current_user); the
\* 404 raised when no row matched is caught by `except Exception`, after the
\* commit, and answered 500
upload_applicant_photo ==
    /\ \E tok \in Presentable(now) :
       \E r \in get_current_user(tok, now, applicant_info) :
       \E photo \in Photos :
          IF r.status # 200
          THEN /\ cardResp' = [route |-> "upload-photo", status |-> r.status,
                               applicant_id |-> 0]
               /\ UNCHANGED admit_card
          ELSE /\ ~CardLocked(r.user.applicant_id)
               /\ admit_card' = SetPhoto(admit_card, r.user.applicant_id, photo)
               /\ cardResp' =
                     [route |-> "upload-photo",
                      status |-> IF \E c \in admit_card :
                                        c.applicant_id = r.user.applicant_id
                                 THEN 200 ELSE 500,
                      applicant_id |-> r.user.applicant_id]
    /\ UNCHANGED <<cardTx, issue, payment, now>>
    /\ UNCHANGED authVars

\* line 397-419: GET /admit-card, behind Depends(get_current_user)
get_admit_card ==
    /\ \E tok \in Presentable(now) :
       \E r \in get_current_user(tok, now, applicant_info) :
          cardResp' =
             IF r.status # 200
             THEN [route |-> "admit-card", status |-> r.status,
                   applicant_id |-> 0]
             ELSE [route |-> "admit-card",
                   status |-> IF \E c \in admit_card :
                                     c.applicant_id = r.user.applicant_id
                              THEN 200 ELSE 404,
                   applicant_id |-> 0]
    /\ UNCHANGED <<payment, now>>
    /\ UNCHANGED rollVars
    /\ UNCHANGED authVars

\* line 452-486: POST /make-payment, behind Depends(get_current_user); the
\* applicant_id of the row is the caller's
make_payment ==
    /\ Cardinality(payment) < MaxPayments
    /\ \E tok \in Presentable(now) :
       \E r \in get_current_user(tok, now, applicant_info) :
          IF r.status # 200
          THEN /\ cardResp' = [route |-> "make-payment", status |-> r.status,
                               applicant_id |-> 0]
               /\ UNCHANGED payment
          ELSE /\ payment' = payment \cup
                     {[payment_id |-> Cardinality(payment) + 1,
                       applicant_id |-> r.user.applicant_id]}
               /\ cardResp' = [route |-> "make-payment", status |-> 200,
                               applicant_id |-> 0]
    /\ UNCHANGED now
    /\ UNCHANGED rollVars
    /\ UNCHANGED authVars

\* a store in which two registrations have committed, no card is issued and
\* no request is in flight
InitCard ==
    /\ applicant_info = {[applicant_id |-> 1, email |-> "a@x.com"],
                         [applicant_id |-> 2, email |-> "b@x.com"]}
    /\ applicant_login = {[email |-> "a@x.com",
                           password_hash |-> get_password_hash("pw1"),
                           last_login |-> -1],
                          [email |-> "b@x.com",
                           password_hash |-> get_password_hash("pw2"),
                           last_login |-> -1]}
    /\ next_id = 3
    /\ admit_card = {}
    /\ cardTx = [p \in Procs |-> {}]
    /\ regTx = [r \in Regs |-> NoTx]
    /\ issue = [p \in Procs |-> IdleIssue]
    /\ reg = [r \in Regs |-> IdleReg]
    /\ loginResp = NoLogin
    /\ resolveResp = NoResolve
    /\ now = 0
    /\ faults = 0
    /\ payment = {}
    /\ cardResp = NoCardResp

\* the admit-card requests of this specification name registered applicants
\* and carry no bearer token: the route never reads it
NextCard ==
    \/ \E p \in CardProcs \cap Procs :
          /\ StartIssue(p)
          /\ issue'[p].bearer = NoToken
          /\ \E u \in applicant_info : u.applicant_id = issue'[p].applicant_id
    \/ \E p \in Procs : ReadMax(p)
    \/ \E p \in Procs : InsertCard(p)
    \/ \E p \in Procs : CommitCard(p)
    \/ \E p \in Procs : ReturnCard(p)
    \/ Login
    \/ upload_applicant_photo
    \/ get_admit_card
    \/ make_payment

SpecCard == InitCard /\ [][NextCard]_vars

Next == NextRoll \/ NextAuth \/ NextSession \/ NextCard

Spec == Init /\ [][Next]_vars

\* ================================================================== claims

\* ---- C1: in every reachable state no two admit_card records hold the same
\* exam_roll, whatever the interleaving of concurrent create_admit_card calls
C1_UniqueRolls ==
    \A c, d \in admit_card : c.exam_roll = d.exam_roll => c = d

\* two calls computed the same roll; one holds it, the other was rejected
C1_Witness ==
    \E p, q \in Procs :
        /\ p # q
        /\ issue[p].new_roll = issue[q].new_roll
        /\ issue[p].status = 201
        /\ issue[q].status = 500

\* ---- C2: from an empty admit_card set, N concurrent create_admit_card calls
\* for N distinct applicants all complete and leave exactly N cards whose
\* rolls are FloorRoll+1 .. FloorRoll+N
Started == {p \in Procs : issue[p].pc # "idle"}

C2_DenseRolls ==
    LET N == Cardinality(Started)
    IN  (/\ \A p \in Started : issue[p].pc = "done"
         /\ \A p, q \in Started :
               p # q => issue[p].applicant_id # issue[q].applicant_id)
        => /\ \A p \in Started : issue[p].status = 201
           /\ Cardinality(admit_card) = N
           /\ Rolls(admit_card) = (FloorRoll + 1)..(FloorRoll + N)

\* ---- C3: a call whose insert lost the race retries the read-max / insert
\* cycle; an error response is given only after at least one retry
C3_RetryBeforeError ==
    \A p \in Procs : issue[p].status = 500 => issue[p].attempts > 1

\* ---- C9: create_admit_card for an applicant who already holds a card
\* creates no second card and leaves the existing cards unchanged, so every
\* applicant holds at most one admit card
C9_OneCardPerApplicant ==
    [][/\ admit_card \subseteq admit_card'
       /\ \A c \in admit_card' \ admit_card :
             \A d \in admit_card : d.applicant_id # c.applicant_id]_vars

\* ---- C10: no admit card is created, and no roll allocated, by a request
\* whose bearer token get_current_user did not resolve
C10_IssueBehindSession ==
    \A p \in Procs :
        (issue[p].pc \in {"commit", "select", "done"} /\ issue[p].status # 500)
        => \E r \in get_current_user(issue[p].bearer, now, applicant_info) :
               r.status = 200

\* ---- C4: register_applicant is all-or-nothing: for every email the store
\* holds as many applicant_info rows as applicant_login rows, whichever step
\* of whichever call failed
C4_AllOrNothing ==
    \A e \in Emails :
        Cardinality({u \in applicant_info : u.email = e})
            = Cardinality({l \in applicant_login : l.email = e})

\* a call failed at its second insert, after its applicant_info row was in
C4_Witness ==
    \E r \in Regs : reg[r].status = 400 /\ next_id > 2

\* ---- C5: a registration of an email that has a credential answers 400
\* 'Email already registered' and the email keeps exactly one credential,
\* also for concurrent calls; registrations of distinct emails succeed with
\* distinct applicant ids and a retrievable credential
Finished(r) == reg[r].pc = "done"

C5_DuplicateIdentity ==
    /\ \A e \in Emails :
          Cardinality({l \in applicant_login : l.email = e}) <= 1
    /\ \A u, v \in applicant_info : u.applicant_id = v.applicant_id => u = v
    /\ \A r \in Regs : Finished(r) /\ ~reg[r].faulted =>
          \/ /\ reg[r].status = 201
             /\ \E l \in applicant_login :
                   /\ l.email = reg[r].email
                   /\ l.password_hash = <<"sha256", reg[r].password>>
             /\ \E u \in applicant_info : u.email = reg[r].email
          \/ /\ reg[r].status = 400
             /\ reg[r].detail = "Email already registered"
             /\ \E q \in Regs \ {r} :
                   reg[q].email = reg[r].email /\ reg[q].status = 201
    /\ \A r, q \in Regs :
          (r # q /\ reg[r].email = reg[q].email /\ reg[r].status = 201)
          => reg[q].status # 201

\* two calls registered the same email: one succeeded, one got 400
C5_Witness ==
    \E r, q \in Regs :
        /\ r # q
        /\ reg[r].email = reg[q].email
        /\ reg[r].status = 201
        /\ reg[q].status = 400

\* ---- C6: a login with the email and password of a committed registration
\* succeeds with a bearer token whose subject is that email, and
\* get_current_user on that token before its expiry returns the applicant
\* record of that email
C6_RoundTrip ==
    [][/\ (loginResp' # loginResp /\ Login) =>
            ((\E r \in Regs : /\ reg[r].status = 201
                              /\ reg[r].email = loginResp'.email
                              /\ reg[r].password = loginResp'.password)
             => /\ loginResp'.status = 200
                /\ loginResp'.token.sub = loginResp'.email
                /\ loginResp'.token.sig = "valid")
       /\ (resolveResp' # resolveResp /\ ReadUsersMe) =>
            ((/\ loginResp.status = 200
              /\ resolveResp'.token = loginResp.token
              /\ now < loginResp.token.exp)
             => /\ resolveResp'.status = 200
                /\ resolveResp'.user.email = loginResp.email
                /\ resolveResp'.user \in applicant_info)]_vars

\* a registered applicant logged in and the token resolved to their record
C6_Witness ==
    /\ loginResp.status = 200
    /\ \E r \in Regs : reg[r].status = 201 /\ reg[r].email = loginResp.email
    /\ resolveResp.status = 200
    /\ resolveResp.token = loginResp.token
    /\ resolveResp.user.email = loginResp.email

\* ---- C7: a failed login answers 401 'Incorrect email or password', for a
\* wrong password and for an unknown email alike
C7_InvalidCredentials ==
    loginResp.status \notin {0, 200}
    => /\ loginResp.status = 401
       /\ loginResp.detail = "Incorrect email or password"

\* ---- C8: a token minted by login at time t expires at t + 30 minutes;
\* get_current_user on it succeeds at every instant before the expiry and
\* fails as expired at every instant at or after it
C8_Expiry ==
    [][/\ Login =>
            (loginResp'.status = 200
             => loginResp'.token.exp = now + 30)
       /\ ReadUsersMe =>
            (resolveResp'.token.sig = "valid"
             => IF now < resolveResp'.token.exp
                THEN /\ resolveResp'.status = 200
                     /\ resolveResp'.user.email = resolveResp'.token.sub
                ELSE /\ resolveResp'.status = 401
                     /\ resolveResp'.kind = "ExpiredSignatureError")]_vars

\* the token was presented at its expiry instant and rejected as expired
C8_Witness ==
    /\ loginResp.status = 200
    /\ resolveResp.token = loginResp.token
    /\ now = loginResp.token.exp
    /\ resolveResp.status = 401
    /\ resolveResp.kind = "ExpiredSignatureError"

\* ---- C11: once an admit card exists its exam_roll never changes: every
\* later step keeps each card with its roll, applicant, unit and issuance
\* time, and only upload_applicant_photo changes a photo, and only on a card
\* of the caller
C11_RollImmutable ==
    [][/\ Cardinality(admit_card') >= Cardinality(admit_card)
       /\ \A c \in admit_card :
             \E d \in admit_card' :
                /\ d.exam_roll = c.exam_roll
                /\ d.applicant_id = c.applicant_id
                /\ d.unit_id = c.unit_id
                /\ d.issued_at = c.issued_at
                /\ d.applicant_photo # c.applicant_photo
                   => /\ upload_applicant_photo
                      /\ cardResp'.route = "upload-photo"
                      /\ cardResp'.applicant_id = c.applicant_id]_vars

\* a photo was uploaded onto the caller's card while another applicant's
\* card, issued beside it, kept its empty photo
C11_Witness ==
    /\ cardResp.route = "upload-photo"
    /\ cardResp.status = 200
    /\ \E c, d \in admit_card :
          /\ c.applicant_id = cardResp.applicant_id
          /\ c.applicant_photo = "jpeg"
          /\ d.applicant_id # c.applicant_id
          /\ d.applicant_photo = "NULL"
          /\ d.exam_roll > c.exam_roll
====
